---------------------------- MODULE Spec2Model ----------------------------
(***************************************************************************)
(* A model of memori (src/memori.c): a terminal line viewer that switches  *)
(* the terminal to raw mode, decodes keys read from standard input, keeps  *)
(* a cursor inside the viewport and repaints the screen on every           *)
(* iteration of its main loop.                                             *)
(*                                                                         *)
(* Bytes are integers (their ASCII codes), byte strings are sequences of   *)
(* bytes, and a termios flag word is the set of the flag bits it has set.  *)
(* System calls are the environment: each of them either succeeds or       *)
(* fails, and what it returns is drawn from a bounded set.                 *)
(***************************************************************************)
EXTENDS Integers, Sequences, FiniteSets, TLC

(***************************************************************************)
(* Bounds of the model.                                                    *)
(***************************************************************************)
\* The largest row and column count the window-size query reports.
MaxRows == 3
MaxCols == 2
\* The longest first line of the opened file (without its line ending).
MaxLine == 2
\* How many allocations (realloc, malloc) may fail in one run.
MaxAllocFail == 1
\* How many times the exit handler may be entered in one run.
MaxRestores == 2
\* How many reads in a row may return no byte before the first byte of a key.
MaxPolls == 2
\* The widest viewport whose rows are drawn, wide enough for the padded banner.
MaxWide == 34
\* How many appends are made to a buffer before it is written.
MaxAppends == 3

(***************************************************************************)
(* Characters.  The C source writes bytes as character literals; Ascii     *)
(* gives the code of each character the program reads or writes.           *)
(***************************************************************************)
Ascii ==
    [c \in {"ESC"} |-> 27] @@ [c \in {"CR"} |-> 13] @@ [c \in {"LF"} |-> 10] @@
    [c \in {" "} |-> 32] @@ [c \in {"%"} |-> 37] @@ [c \in {"+"} |-> 43] @@
    [c \in {"-"} |-> 45] @@ [c \in {"."} |-> 46] @@
    [c \in {"0"} |-> 48] @@ [c \in {"1"} |-> 49] @@ [c \in {"2"} |-> 50] @@
    [c \in {"3"} |-> 51] @@ [c \in {"4"} |-> 52] @@ [c \in {"5"} |-> 53] @@
    [c \in {"6"} |-> 54] @@ [c \in {"7"} |-> 55] @@ [c \in {"8"} |-> 56] @@
    [c \in {"9"} |-> 57] @@ [c \in {":"} |-> 58] @@ [c \in {";"} |-> 59] @@
    [c \in {"<"} |-> 60] @@ [c \in {">"} |-> 62] @@ [c \in {"?"} |-> 63] @@
    [c \in {"A"} |-> 65] @@ [c \in {"B"} |-> 66] @@ [c \in {"C"} |-> 67] @@
    [c \in {"D"} |-> 68] @@ [c \in {"F"} |-> 70] @@ [c \in {"H"} |-> 72] @@
    [c \in {"J"} |-> 74] @@ [c \in {"K"} |-> 75] @@ [c \in {"M"} |-> 77] @@
    [c \in {"O"} |-> 79] @@ [c \in {"R"} |-> 82] @@ [c \in {"["} |-> 91] @@
    [c \in {"a"} |-> 97] @@ [c \in {"b"} |-> 98] @@ [c \in {"c"} |-> 99] @@
    [c \in {"d"} |-> 100] @@
    [c \in {"e"} |-> 101] @@ [c \in {"f"} |-> 102] @@ [c \in {"g"} |-> 103] @@
    [c \in {"h"} |-> 104] @@ [c \in {"i"} |-> 105] @@ [c \in {"j"} |-> 106] @@
    [c \in {"k"} |-> 107] @@ [c \in {"l"} |-> 108] @@ [c \in {"m"} |-> 109] @@
    [c \in {"n"} |-> 110] @@ [c \in {"o"} |-> 111] @@ [c \in {"q"} |-> 113] @@
    [c \in {"r"} |-> 114] @@ [c \in {"s"} |-> 115] @@ [c \in {"t"} |-> 116] @@
    [c \in {"u"} |-> 117] @@ [c \in {"v"} |-> 118] @@ [c \in {"x"} |-> 120] @@
    [c \in {"~"} |-> 126]

\* The code of one character.
Chr(c) == Ascii[c]

\* A string literal, given character by character, as a byte string.
Str(cs) == [i \in 1..Len(cs) |-> Ascii[cs[i]]]

\* #define CTRL_KEY(k) ((k) & 0x1f): the low five bits of k.
CTRL_KEY(k) == k % 32

(***************************************************************************)
(* enum EditorKey.                                                         *)
(***************************************************************************)
ARROW_LEFT == 1000
ARROW_RIGHT == 1001
ARROW_UP == 1002
ARROW_DOWN == 1003
PAGE_UP == 1004
PAGE_DOWN == 1005
HOME_KEY == 1006
END_KEY == 1007
DELETE_KEY == 1008

\* The symbolic keys of the enumeration.
EditorKeys == ARROW_LEFT..DELETE_KEY

(***************************************************************************)
(* Arithmetic and sequence helpers.                                        *)
(***************************************************************************)
Min(a, b) == IF a < b THEN a ELSE b

\* C's integer division, which truncates toward zero.
CDiv(a, b) == IF a >= 0 THEN a \div b ELSE -((-a) \div b)

\* Whether p is a prefix, and whether s is a suffix, of the byte string t.
IsPrefix(p, t) == Len(p) <= Len(t) /\ SubSeq(t, 1, Len(p)) = p
IsSuffix(s, t) == Len(s) <= Len(t) /\ SubSeq(t, Len(t) - Len(s) + 1, Len(t)) = s

\* The concatenation of a sequence of byte strings.
RECURSIVE Flatten(_)
Flatten(ss) == IF ss = <<>> THEN <<>> ELSE Head(ss) \o Flatten(Tail(ss))


(***************************************************************************)
(* struct termios.  A flag word is the set of its flag bits that are set;  *)
(* the two bits of the character-size field CSIZE are CSIZE4 and CSIZE5    *)
(* (CS5 is neither, CS6 the first, CS7 the second, CS8 both).              *)
(***************************************************************************)
CS8 == {"CSIZE4", "CSIZE5"}

\* The flag bits Terminal_enableRawMode clears, by flag word.
RawOflagOff == {"OPOST"}
RawIflagOff == {"IXON", "ICRNL", "BRKINT", "INPCK", "ISTRIP"}
RawLflagOff == {"ECHO", "ICANON", "ISIG", "IEXTEN"}

\* editorConfig is a global: its termios member starts zeroed.
ZeroTermios ==
    [c_iflag |-> {}, c_oflag |-> {}, c_cflag |-> {}, c_lflag |-> {},
     vmin |-> 0, vtime |-> 0]

\* The attributes of a terminal in its usual line mode.
CookedTermios ==
    [c_iflag |-> {"ICRNL", "IXON", "BRKINT", "IUTF8"},
     c_oflag |-> {"OPOST", "ONLCR"},
     c_cflag |-> {"CSIZE4", "CSIZE5"},
     c_lflag |-> {"ECHO", "ICANON", "ISIG", "IEXTEN", "ECHOE"},
     vmin |-> 1, vtime |-> 0]

\* The attributes the terminal may have when the program starts.
TermSet ==
    [c_iflag : {{}, {"ICRNL", "IXON", "BRKINT", "IUTF8"},
                {"IXON", "ICRNL", "BRKINT", "INPCK", "ISTRIP", "IUTF8"}},
     c_oflag : {{}, {"OPOST", "ONLCR"}},
     c_cflag : {{}, {"CSIZE4"}, {"CSIZE4", "CSIZE5", "CREAD"}},
     c_lflag : {{}, {"ECHOE"}, {"ECHO", "ICANON", "ISIG", "IEXTEN", "ECHOE"}},
     vmin : {0, 1},
     vtime : {0, 1}]

\* Lines 102-116: the raw attributes, built on a copy of the captured ones.
RawTermios(t) ==
    [t EXCEPT !.c_oflag = @ \ RawOflagOff,
              !.c_cflag = @ \cup CS8,
              !.c_iflag = @ \ RawIflagOff,
              !.c_lflag = @ \ RawLflagOff,
              !.vmin = 0,
              !.vtime = 1]

(***************************************************************************)
(* Escape sequences the program writes.                                    *)
(***************************************************************************)
ERASE_SCREEN == Str(<<"ESC", "[", "2", "J">>)
CURSOR_HOME == Str(<<"ESC", "[", "H">>)
HIDE_CURSOR == Str(<<"ESC", "[", "?", "2", "5", "l">>)
SHOW_CURSOR == Str(<<"ESC", "[", "?", "2", "5", "h">>)
ERASE_LINE == Str(<<"ESC", "[", "K">>)
CRLF == Str(<<"CR", "LF">>)
TILDE == Str(<<"~">>)
SPACE == Str(<<" ">>)
CURSOR_FAR == Str(<<"ESC", "[", "9", "9", "9", "C", "ESC", "[", "9", "9", "9", "B">>)
CURSOR_QUERY == Str(<<"ESC", "[", "6", "n">>)
\* The usage message, for a program started under the name memori.
USAGE ==
    Str(<<"u", "s", "a", "g", "e", ":", " ", "m", "e", "m", "o", "r", "i", " ",
          "<", "f", "i", "l", "e", ">", "LF">>)
WELCOME ==
    Str(<<"M", "e", "m", "o", "r", "i", " ", "e", "d", "i", "t", "o", "r", " ",
          "-", "-", " ", "v", "e", "r", "s", "i", "o", "n", " ",
          "0", ".", "0", ".", "1">>)

(***************************************************************************)
(* The state of the program and of its terminal.                           *)
(***************************************************************************)
VARIABLES
    pc,          \* where the program is: the function main is about to call
    status,      \* the exit status, -1 while the process has not exited
    argc,        \* the number of command-line arguments, the program name included
    term,        \* the attributes of the terminal
    term0,       \* the attributes the terminal had when the program started
    saved,       \* editorConfig.terminal
    hooks,       \* how many times Terminal_disableRawMode was registered with atexit
    restores,    \* how many times Terminal_disableRawMode has run
    cx,          \* editorConfig.cx
    cy,          \* editorConfig.cy
    screenRows,  \* editorConfig.screenRows
    screenCols,  \* editorConfig.screenCols
    numRows,     \* editorConfig.numRows
    row,         \* editorConfig.row: the bytes of the loaded row (size is its length)
    key,         \* the key Terminal_readKey returned in this iteration of the loop
    input,       \* the results of the reads Terminal_readKey made in this iteration
    written,     \* the write calls on standard output made by the step just taken
    allocFails,  \* how many allocations have failed so far
    ab,          \* the AppendBuffer of Editor_refreshScreen: buf[0 .. len-1] and len
    appends      \* the calls of AppendBuffer_append made on ab, and whether realloc succeeded

vars ==
    <<pc, status, argc, term, term0, saved, hooks, restores, cx, cy, screenRows,
      screenCols, numRows, row, key, input, written, allocFails, ab, appends>>

editorVars == <<cx, cy, screenRows, screenCols, numRows, row>>
termVars == <<term, term0, saved, hooks, restores>>

\* The value of the key variable of Editor_processKey before a key was read.
NoKey == -1

\* Line 243: the buffer before any append; it is also what the model holds
\* for ab outside Editor_refreshScreen, where the object does not exist.
APPEND_BUFFER_INIT == [buf |-> <<>>, len |-> 0]


(***************************************************************************)
(* Terminal_die and exit.  Terminal_die clears the screen with two writes, *)
(* reports the error and calls exit(1); exit runs the registered handlers  *)
(* (pc = "atexit") and then ends the process.                              *)
(***************************************************************************)
Terminal_die ==
    /\ written' = <<ERASE_SCREEN, CURSOR_HOME>>
    /\ status' = 1
    /\ pc' = "atexit"

\* exit with no handler registered: the process ends.
ExitNoHandler ==
    /\ pc = "atexit"
    /\ hooks = 0
    /\ pc' = "exited"
    /\ written' = <<>>
    /\ UNCHANGED <<status, argc, termVars, editorVars, key, input, allocFails, ab, appends>>

(***************************************************************************)
(* Terminal_disableRawMode, run by exit as the registered handler.  When   *)
(* tcsetattr fails it calls Terminal_die, which calls exit a second time,  *)
(* from inside the handler: the C standard leaves that undefined.  A C     *)
(* library may go on with the handlers that are left and end the process,  *)
(* may abort, or may start the handler list over.                          *)
(***************************************************************************)
Terminal_disableRawMode ==
    /\ pc = "atexit"
    /\ hooks > 0
    /\ restores < MaxRestores
    /\ restores' = restores + 1
    /\ \/ /\ term' = saved
          /\ pc' = "exited"
          /\ written' = <<>>
          /\ UNCHANGED status
       \/ /\ term' = term
          /\ written' = <<ERASE_SCREEN, CURSOR_HOME>>
          /\ status' = 1
          /\ \/ pc' = "exited"
             \/ pc' = "crashed"
             \/ /\ restores' < MaxRestores
                /\ pc' = "atexit"
    /\ UNCHANGED <<argc, term0, saved, hooks, editorVars, key, input, allocFails, ab, appends>>

(***************************************************************************)
(* main, lines 425-433: the usage path and the calls before the loop.      *)
(***************************************************************************)
Main ==
    /\ pc = "main"
    /\ IF argc < 2
       THEN /\ written' = <<USAGE>>
            /\ status' = 0
            /\ pc' = "atexit"
       ELSE /\ pc' = "enableRawMode"
            /\ written' = <<>>
            /\ UNCHANGED status
    /\ UNCHANGED <<argc, termVars, editorVars, key, input, allocFails, ab, appends>>

(***************************************************************************)
(* Terminal_enableRawMode.  tcgetattr fills editorConfig.terminal, the     *)
(* handler is registered, and tcsetattr applies the raw copy.              *)
(***************************************************************************)
\* What editorConfig.terminal would hold if raw were built in it, not in a copy.
SnapshotBuiltInPlace(t) == RawTermios(t)
\* What editorConfig.terminal holds once raw has been built from it (lines 102-116).
SnapshotAfterRaw(t) == t

Terminal_enableRawMode ==
    /\ pc = "enableRawMode"
    /\ \/ /\ Terminal_die
          /\ UNCHANGED <<term, saved, hooks>>
       \/ /\ saved' = SnapshotAfterRaw(term)
          /\ hooks' = hooks + 1
          /\ \/ /\ term' = RawTermios(term)
                /\ pc' = "init"
                /\ written' = <<>>
                /\ UNCHANGED status
             \/ /\ term' = term
                /\ Terminal_die
    /\ UNCHANGED <<argc, term0, restores, editorVars, key, input, allocFails, ab, appends>>


(***************************************************************************)
(* sscanf(&buf[2], "%d;%d", rows, cols), as the C library does it: each %d *)
(* skips white space, takes an optional sign and then at least one digit.  *)
(***************************************************************************)
IsSpace(b) == b = 32 \/ (b >= 9 /\ b <= 13)
IsDigit(b) == b >= Chr("0") /\ b <= Chr("9")

RECURSIVE SkipSpace(_, _)
SkipSpace(s, i) ==
    IF i <= Len(s) /\ IsSpace(s[i]) THEN SkipSpace(s, i + 1) ELSE i

RECURSIVE ScanDigits(_, _, _)
ScanDigits(s, i, acc) ==
    IF i <= Len(s) /\ IsDigit(s[i])
    THEN ScanDigits(s, i + 1, acc * 10 + (s[i] - Chr("0")))
    ELSE [val |-> acc, next |-> i]

\* One %d conversion at position i: whether it converted, the value, and
\* the position after it.
ScanInt(s, i) ==
    LET j == SkipSpace(s, i)
        signed == j <= Len(s) /\ s[j] \in {Chr("-"), Chr("+")}
        k == IF signed THEN j + 1 ELSE j
        d == ScanDigits(s, k, 0)
    IN  [ok |-> d.next > k,
         val |-> IF signed /\ s[j] = Chr("-") THEN 0 - d.val ELSE d.val,
         next |-> d.next]

\* The number of conversions made and the two values.
Sscanf(s) ==
    LET a == ScanInt(s, 1)
        b == ScanInt(s, a.next + 1)
    IN  IF ~a.ok THEN [n |-> 0, a |-> 0, b |-> 0]
        ELSE IF a.next <= Len(s) /\ s[a.next] = Chr(";") /\ b.ok
             THEN [n |-> 2, a |-> a.val, b |-> b.val]
             ELSE [n |-> 1, a |-> a.val, b |-> 0]

(***************************************************************************)
(* Terminal_getCursorPosition.  reply is the bytes standard input delivers *)
(* before a read returns no byte.  The result is the return value, the     *)
(* values left in *rows and *cols (oldRows and oldCols when not stored)    *)
(* and the write calls made.                                               *)
(***************************************************************************)
\* sizeof(buf) - 1 of Terminal_getCursorPosition.
ReplyCap == 31

\* Lines 198-203: the bytes stored in buf before the terminating NUL.
RECURSIVE ReplyBuf(_, _)
ReplyBuf(reply, i) ==
    IF i < ReplyCap /\ i + 1 <= Len(reply) /\ reply[i + 1] # Chr("R")
    THEN ReplyBuf(reply, i + 1)
    ELSE SubSeq(reply, 1, i)

Terminal_getCursorPosition(oldRows, oldCols, queryOk, reply) ==
    LET buf == ReplyBuf(reply, 0)
        sc == Sscanf(SubSeq(buf, 3, Len(buf)))
        fail == [ret |-> -1, rows |-> oldRows, cols |-> oldCols]
    IN  IF ~queryOk THEN fail
        ELSE IF Len(buf) < 2 \/ buf[1] # Chr("ESC") \/ buf[2] # Chr("[") THEN fail
        ELSE IF sc.n # 2
             THEN [ret |-> -1,
                   rows |-> IF sc.n >= 1 THEN sc.a ELSE oldRows,
                   cols |-> oldCols]
             ELSE [ret |-> 0, rows |-> sc.a, cols |-> sc.b]

(***************************************************************************)
(* Terminal_getWindowSize.  io is what ioctl(TIOCGWINSZ) gives: its return *)
(* value and the winsize it fills.                                         *)
(***************************************************************************)
\* Line 225: whether the primary query is given up for the fallback.
PrimaryFails(io) == io.ret = -1 \/ io.ws_col = 0

Terminal_getWindowSize(oldRows, oldCols, io, moveOk, queryOk, reply) ==
    IF PrimaryFails(io)
    THEN IF ~moveOk
         THEN [ret |-> -1, rows |-> oldRows, cols |-> oldCols,
               writes |-> <<CURSOR_FAR>>]
         ELSE Terminal_getCursorPosition(oldRows, oldCols, queryOk, reply)
              @@ [writes |-> <<CURSOR_FAR, CURSOR_QUERY>>]
    ELSE [ret |-> 0, rows |-> io.ws_row, cols |-> io.ws_col, writes |-> <<>>]

\* What ioctl may give.
IoctlResults ==
    {[ret |-> -1, ws_row |-> 0, ws_col |-> 0]}
    \cup [ret : {0}, ws_row : 0..MaxRows, ws_col : 0..MaxCols]

\* The replies the terminal may give to the cursor-position query: the
\* well-formed ones, ESC [ rows ; cols R, with numerals that may be signed,
\* zero, padded or missing, and replies that lack one of their parts.
Numerals(max) ==
    {<<>>, Str(<<"-", "1">>), Str(<<" ", "0", "1">>)}
    \cup {<<Chr("0") + d>> : d \in 0..max}

ReplySet ==
    {Str(<<"ESC", "[">>) \o r \o Str(<<";">>) \o c \o Str(<<"R">>) :
        r \in Numerals(MaxRows), c \in Numerals(MaxCols)}
    \cup {<<>>,
          Str(<<"ESC">>),
          Str(<<"[", "1", ";", "1", "R">>),
          Str(<<"ESC", "O", "1", ";", "1", "R">>),
          Str(<<"ESC", "[", "1", "1", "R">>),
          Str(<<"ESC", "[", "1", ";", "R">>),
          Str(<<"ESC", "[", "1", ";", "2">>),
          Str(<<"ESC", "[", "R", "1", ";", "1", "R">>)}

\* The outcomes of the two writes and the reply, which are used only when
\* the primary query fails.
FallbackInputs(io) ==
    IF PrimaryFails(io)
    THEN {[moveOk |-> FALSE, queryOk |-> FALSE, reply |-> <<>>],
          [moveOk |-> TRUE, queryOk |-> FALSE, reply |-> <<>>]}
         \cup [moveOk : {TRUE}, queryOk : {TRUE}, reply : ReplySet]
    ELSE {[moveOk |-> TRUE, queryOk |-> TRUE, reply |-> <<>>]}

(***************************************************************************)
(* Editor_init.                                                            *)
(***************************************************************************)
Editor_init ==
    /\ pc = "init"
    /\ \E io \in IoctlResults : \E fb \in FallbackInputs(io) :
         LET ws == Terminal_getWindowSize(screenRows, screenCols, io,
                                          fb.moveOk, fb.queryOk, fb.reply)
         IN  /\ cx' = 0
             /\ cy' = 0
             /\ numRows' = 0
             /\ screenRows' = ws.rows
             /\ screenCols' = ws.cols
             /\ IF ws.ret = -1
                THEN Terminal_die
                ELSE /\ pc' = "open"
                     /\ written' = ws.writes
                     /\ UNCHANGED status
    /\ UNCHANGED <<argc, termVars, row, key, input, allocFails, ab, appends>>


(***************************************************************************)
(* Editor_open.  line is what getline returns for the first line of the    *)
(* file, its line ending included.                                         *)
(***************************************************************************)
\* Lines 269-271: the length left once the trailing CR and LF are dropped.
RECURSIVE StripEOL(_, _)
StripEOL(line, linelen) ==
    IF linelen > 0 /\ line[linelen] \in {Chr("CR"), Chr("LF")}
    THEN StripEOL(line, linelen - 1)
    ELSE linelen

\* The first lines a file may have: a text and a line ending.
LineTexts == {[i \in 1..n |-> IF i % 2 = 1 THEN Chr("a") ELSE Chr("b")] : n \in 0..MaxLine}
FileLines ==
    {t \o e : t \in LineTexts, e \in {<<>>, Str(<<"LF">>), Str(<<"CR", "LF">>)}}
    \ {<<>>}

Editor_open ==
    /\ pc = "open"
    /\ \/ /\ Terminal_die
          /\ UNCHANGED <<numRows, row, allocFails, ab, appends>>
       \/ /\ pc' = "loop"
          /\ written' = <<>>
          /\ UNCHANGED <<status, numRows, row, allocFails, ab, appends>>
       \/ \E line \in FileLines :
            LET linelen == StripEOL(line, Len(line))
            IN  \/ /\ row' = SubSeq(line, 1, linelen)
                   /\ numRows' = 1
                   /\ pc' = "loop"
                   /\ written' = <<>>
                   /\ UNCHANGED <<status, allocFails, ab, appends>>
                \/ /\ allocFails < MaxAllocFail
                   /\ allocFails' = allocFails + 1
                   /\ pc' = "crashed"
                   /\ written' = <<>>
                   /\ UNCHANGED <<status, numRows, row, ab, appends>>
    /\ UNCHANGED <<argc, termVars, cx, cy, screenRows, screenCols, key, input>>

(***************************************************************************)
(* Terminal_readKey.  in is the results of the read calls on standard      *)
(* input, in order: each is the return value n of read, the byte v it      *)
(* stored when n = 1, and errno when n = -1.  seq is what the local array  *)
(* seq holds when the function is entered: it is not initialized.          *)
(*                                                                         *)
(* The result is "key" with the key returned, "die" when Terminal_die is   *)
(* called, or "more" when the function is waiting in a read that in does   *)
(* not answer; used is the number of reads made and bytes the number of    *)
(* bytes consumed.                                                         *)
(***************************************************************************)
ByteRead(b) == [n |-> 1, v |-> b, errno |-> ""]
NoByte == [n |-> 0, v |-> 0, errno |-> ""]
ReadError(e) == [n |-> -1, v |-> 0, errno |-> e]

\* A loop that would make the read again only when it returned 0.
IsRetryZeroOnly(r) == r.n = 0
\* Lines 131-135: a read is made again when it returned 0 or failed with EAGAIN.
IsRetry(r) == r.n = 0 \/ (r.n = -1 /\ r.errno = "EAGAIN")

RECURSIVE FirstAnswer(_, _)
FirstAnswer(in, i) ==
    IF i <= Len(in) /\ IsRetry(in[i]) THEN FirstAnswer(in, i + 1) ELSE i

\* A read that would store every byte in seq[0].
StoreInFirstSlot(seq, k, r) == [seq EXCEPT ![0] = r.v]
\* read(STDIN_FILENO, &seq[k], 1) returning 1 stores the byte in seq[k].
StoreRead(seq, k, r) == [seq EXCEPT ![k] = r.v]

\* A switch with the home and end cases exchanged.
TildeKeySwapped(d) ==
    CASE d \in {Chr("1"), Chr("7")} -> END_KEY
      [] d \in {Chr("4"), Chr("8")} -> HOME_KEY
      [] d \in {Chr("2"), Chr("5")} -> PAGE_UP
      [] d = Chr("6") -> PAGE_DOWN
      [] d = Chr("3") -> DELETE_KEY
      [] OTHER -> NoKey
\* Lines 147-165: the key of ESC [ digit ~, NoKey when the switch has no case.
TildeKey(d) ==
    CASE d \in {Chr("1"), Chr("7")} -> HOME_KEY
      [] d \in {Chr("4"), Chr("8")} -> END_KEY
      [] d \in {Chr("2"), Chr("5")} -> PAGE_UP
      [] d = Chr("6") -> PAGE_DOWN
      [] d = Chr("3") -> DELETE_KEY
      [] OTHER -> NoKey

\* A switch that would return a letter it does not know as the key.
BracketKeyLiteral(b) ==
    CASE b = Chr("A") -> ARROW_UP
      [] b = Chr("B") -> ARROW_DOWN
      [] b = Chr("C") -> ARROW_RIGHT
      [] b = Chr("D") -> ARROW_LEFT
      [] b = Chr("H") -> HOME_KEY
      [] b = Chr("F") -> END_KEY
      [] OTHER -> b
\* Lines 169-176: the key of ESC [ letter.
BracketKey(b) ==
    CASE b = Chr("A") -> ARROW_UP
      [] b = Chr("B") -> ARROW_DOWN
      [] b = Chr("C") -> ARROW_RIGHT
      [] b = Chr("D") -> ARROW_LEFT
      [] b = Chr("H") -> HOME_KEY
      [] b = Chr("F") -> END_KEY
      [] OTHER -> NoKey

\* Lines 178-181: the key of ESC O letter.
OKey(b) ==
    CASE b = Chr("H") -> HOME_KEY
      [] b = Chr("F") -> END_KEY
      [] OTHER -> NoKey

\* A return of 0 where the code returns c.
ReturnOnNoByteZero(c) == 0
\* Lines 140, 141, 145: what is returned when a read after the escape byte
\* does not return 1.
ReturnOnNoByte(c) == c

KeyResult(k, used, bytes) == [kind |-> "key", key |-> k, used |-> used, bytes |-> bytes]
MoreResult(used, bytes) == [kind |-> "more", key |-> NoKey, used |-> used, bytes |-> bytes]

\* Lines 137-185: c, the escape byte, was the answer of read number p.
ReadEscape(in, p, c, seq) ==
    LET seqA == StoreRead(seq, 0, in[p + 1])
        seqB == StoreRead(seqA, 1, in[p + 2])
        seqC == StoreRead(seqB, 2, in[p + 3])
        fallThrough(sq, used, bytes) ==
            IF BracketKey(sq[1]) # NoKey
            THEN KeyResult(BracketKey(sq[1]), used, bytes)
            ELSE KeyResult(c, used, bytes)
    IN  IF p + 1 > Len(in) THEN MoreResult(p, 1)
        ELSE IF in[p + 1].n # 1 THEN KeyResult(ReturnOnNoByte(c), p + 1, 1)
        ELSE IF p + 2 > Len(in) THEN MoreResult(p + 1, 2)
        ELSE IF in[p + 2].n # 1 THEN KeyResult(ReturnOnNoByte(c), p + 2, 2)
        ELSE IF seqB[0] = Chr("[")
             THEN IF IsDigit(seqB[1])
                  THEN IF p + 3 > Len(in) THEN MoreResult(p + 2, 3)
                       ELSE IF in[p + 3].n # 1
                            THEN KeyResult(ReturnOnNoByte(c), p + 3, 3)
                       ELSE IF seqC[2] = Chr("~") /\ TildeKey(seqC[1]) # NoKey
                            THEN KeyResult(TildeKey(seqC[1]), p + 3, 4)
                       ELSE fallThrough(seqC, p + 3, 4)
                  ELSE fallThrough(seqB, p + 2, 3)
        ELSE IF seqB[0] = Chr("O") /\ OKey(seqB[1]) # NoKey
             THEN KeyResult(OKey(seqB[1]), p + 2, 3)
        ELSE KeyResult(c, p + 2, 3)

Terminal_readKey(in, seq) ==
    LET p == FirstAnswer(in, 1)
    IN  IF p > Len(in) THEN MoreResult(Len(in), 0)
        ELSE IF in[p].n # 1
             THEN [kind |-> "die", key |-> NoKey, used |-> p, bytes |-> 0]
        ELSE IF in[p].v = Chr("ESC") THEN ReadEscape(in, p, in[p].v, seq)
        ELSE KeyResult(in[p].v, p, 1)


(***************************************************************************)
(* The call of Terminal_readKey in Editor_processKey (line 307).  The      *)
(* environment chooses what the reads return and what seq held before.     *)
(***************************************************************************)
\* The bytes a key press may send.
KeyBytes ==
    {Chr(c) : c \in {"ESC", "[", "O", "~", "A", "B", "C", "D", "H", "F",
                     "0", "1", "2", "3", "4", "5", "6", "7", "8", "9",
                     "h", "j", "k", "l", "x"}}
    \cup {CTRL_KEY(Chr("q"))}

\* What one read call may return.
ReadResults ==
    {ByteRead(b) : b \in KeyBytes} \cup {NoByte, ReadError("EAGAIN"), ReadError("EIO")}

\* What the uninitialized array seq may hold.
Garbage == {[i \in 0..2 |-> b] : b \in {0, Chr("A")}}

\* The read results of whole calls: single bytes, escape sequences for each
\* key, sequences that are cut short or not recognized, a read that is
\* made again, and a read error.
KeyInputs ==
    {<<ByteRead(b)>> : b \in {Chr("h"), Chr("j"), Chr("k"), Chr("l"), Chr("x"),
                              Chr("["), CTRL_KEY(Chr("q"))}}
    \cup {<<ByteRead(Chr("ESC")), ByteRead(Chr("[")), ByteRead(Chr(b))>> :
             b \in {"A", "B", "C", "D", "H", "F"}}
    \cup {<<ByteRead(Chr("ESC")), ByteRead(Chr("[")), ByteRead(Chr(d)), ByteRead(Chr("~"))>> :
             d \in {"1", "2", "3", "4", "5", "6", "9"}}
    \cup {<<ByteRead(Chr("ESC")), ByteRead(Chr("O")), ByteRead(Chr("F"))>>,
          <<ByteRead(Chr("ESC")), NoByte>>,
          <<ByteRead(Chr("ESC")), ByteRead(Chr("j")), ByteRead(Chr("j"))>>,
          <<ByteRead(Chr("ESC")), ByteRead(Chr("[")), ByteRead(Chr("5")), ByteRead(Chr("x"))>>,
          <<NoByte, ByteRead(Chr("k"))>>,
          <<ReadError("EIO")>>}

\* What the program does with the result of a call that has ended.
KeyReturned(res) ==
    IF res.kind = "die"
    THEN /\ Terminal_die
         /\ UNCHANGED key
    ELSE /\ key' = res.key
         /\ pc' = "dispatch"
         /\ written' = <<>>
         /\ UNCHANGED status

\* A whole call of Terminal_readKey.
ReadKey ==
    /\ pc = "processKey"
    /\ \E in \in KeyInputs :
         \E res \in {Terminal_readKey(in, seq) : seq \in Garbage} :
             /\ res.kind # "more"
             /\ res.used = Len(in)
             /\ input' = in
             /\ KeyReturned(res)
    /\ ab' = APPEND_BUFFER_INIT
    /\ appends' = <<>>
    /\ UNCHANGED <<argc, termVars, editorVars, allocFails>>

\* One read call of Terminal_readKey: the call goes on while it waits for
\* a read, and ends with the read that decides the key.
ReadStep ==
    /\ pc = "processKey"
    /\ \E r \in ReadResults : \E seq \in Garbage :
         LET in == Append(input, r)
             res == Terminal_readKey(in, seq)
         IN  /\ IsRetry(r) /\ res.kind = "more" => Len(in) <= MaxPolls
             /\ input' = in
             /\ IF res.kind = "more"
                THEN /\ written' = <<>>
                     /\ UNCHANGED <<pc, key, status>>
                ELSE KeyReturned(res)
    /\ ab' = APPEND_BUFFER_INIT
    /\ appends' = <<>>
    /\ UNCHANGED <<argc, termVars, editorVars, allocFails>>

\* The next call of Terminal_readKey, once the key of the last one is known.
NextCall ==
    /\ pc = "dispatch"
    /\ pc' = "processKey"
    /\ key' = NoKey
    /\ input' = <<>>
    /\ written' = <<>>
    /\ UNCHANGED <<status, argc, termVars, editorVars, allocFails, ab, appends>>

(***************************************************************************)
(* Editor_processMoveCursor and the switch of Editor_processKey.           *)
(***************************************************************************)
\* The moves without the comparisons that guard them.
MoveCursorUnclamped(k, x, y, rows, cols) ==
    CASE k \in {Chr("k"), ARROW_UP} -> [cx |-> x, cy |-> y - 1]
      [] k \in {Chr("j"), ARROW_DOWN} -> [cx |-> x, cy |-> y + 1]
      [] k \in {Chr("l"), ARROW_RIGHT} -> [cx |-> x + 1, cy |-> y]
      [] k \in {Chr("h"), ARROW_LEFT} -> [cx |-> x - 1, cy |-> y]
      [] OTHER -> [cx |-> x, cy |-> y]
\* The guarded moves with 'j' going up and 'k' going down.
MoveCursorAliasesSwapped(k, x, y, rows, cols) ==
    CASE k \in {Chr("j"), ARROW_UP} ->
            [cx |-> x, cy |-> IF y > 0 THEN y - 1 ELSE y]
      [] k \in {Chr("k"), ARROW_DOWN} ->
            [cx |-> x, cy |-> IF y < rows - 1 THEN y + 1 ELSE y]
      [] k \in {Chr("l"), ARROW_RIGHT} ->
            [cx |-> IF x < cols - 1 THEN x + 1 ELSE x, cy |-> y]
      [] k \in {Chr("h"), ARROW_LEFT} ->
            [cx |-> IF x > 0 THEN x - 1 ELSE x, cy |-> y]
      [] OTHER -> [cx |-> x, cy |-> y]
\* Lines 285-304: the cursor after one move key, each move guarded.
Editor_processMoveCursor(k, x, y, rows, cols) ==
    CASE k \in {Chr("k"), ARROW_UP} ->
            [cx |-> x, cy |-> IF y > 0 THEN y - 1 ELSE y]
      [] k \in {Chr("j"), ARROW_DOWN} ->
            [cx |-> x, cy |-> IF y < rows - 1 THEN y + 1 ELSE y]
      [] k \in {Chr("l"), ARROW_RIGHT} ->
            [cx |-> IF x < cols - 1 THEN x + 1 ELSE x, cy |-> y]
      [] k \in {Chr("h"), ARROW_LEFT} ->
            [cx |-> IF x > 0 THEN x - 1 ELSE x, cy |-> y]
      [] OTHER -> [cx |-> x, cy |-> y]

\* A page key that would move the cursor once.
PageTimesOnce(rows) == 1
\* Line 320: how many times a page key moves the cursor.
PageTimes(rows) == rows

\* Lines 321-323: the move made times times.
RECURSIVE RepeatMove(_, _, _, _, _)
RepeatMove(times, k, pos, rows, cols) ==
    IF times = 0 THEN pos
    ELSE RepeatMove(times - 1, k,
                    Editor_processMoveCursor(k, pos.cx, pos.cy, rows, cols),
                    rows, cols)

\* The keys passed on to Editor_processMoveCursor (lines 335-342).
MoveKeys ==
    {Chr("k"), Chr("j"), Chr("l"), Chr("h"),
     ARROW_UP, ARROW_DOWN, ARROW_RIGHT, ARROW_LEFT}

\* A switch whose unmatched keys would move the cursor to the right.
UnhandledKeyMovesRight(k, x, y) == [cx |-> x + 1, cy |-> y]
\* Lines 309-345: the switch has no default label, so a key that matches no
\* case leaves the cursor where it is.
UnhandledKey(k, x, y) == [cx |-> x, cy |-> y]

\* The switch of Editor_processKey on the key read.  With a negative row
\* count the loop of the page keys counts down from a negative number: it
\* ends only once the counter has overflowed, which is undefined; the
\* program then either goes on, the cursor moved as far as it goes, or
\* stops there.
Editor_processKey ==
    /\ pc = "dispatch"
    /\ \/ /\ key = CTRL_KEY(Chr("q"))
          /\ written' = <<ERASE_SCREEN, CURSOR_HOME>>
          /\ status' = 0
          /\ pc' = "atexit"
          /\ UNCHANGED <<cx, cy>>
       \/ /\ key \in {PAGE_UP, PAGE_DOWN}
          /\ LET dir == IF key = PAGE_UP THEN ARROW_UP ELSE ARROW_DOWN
                 times == PageTimes(screenRows)
                 pos == RepeatMove(IF times >= 0 THEN times ELSE 1, dir,
                                   [cx |-> cx, cy |-> cy], screenRows, screenCols)
             IN  \/ /\ cx' = pos.cx
                    /\ cy' = pos.cy
                    /\ pc' = "loop"
                 \/ /\ times < 0
                    /\ pc' = "crashed"
                    /\ UNCHANGED <<cx, cy>>
          /\ written' = <<>>
          /\ UNCHANGED status
       \/ /\ key = HOME_KEY
          /\ cx' = 0
          /\ pc' = "loop"
          /\ written' = <<>>
          /\ UNCHANGED <<cy, status>>
       \/ /\ key = END_KEY
          /\ cx' = screenCols - 1
          /\ pc' = "loop"
          /\ written' = <<>>
          /\ UNCHANGED <<cy, status>>
       \/ /\ key \in MoveKeys
          /\ LET pos == Editor_processMoveCursor(key, cx, cy, screenRows, screenCols)
             IN  /\ cx' = pos.cx
                 /\ cy' = pos.cy
          /\ pc' = "loop"
          /\ written' = <<>>
          /\ UNCHANGED status
       \/ /\ key \notin {CTRL_KEY(Chr("q")), PAGE_UP, PAGE_DOWN, HOME_KEY, END_KEY}
          /\ key \notin MoveKeys
          /\ LET pos == UnhandledKey(key, cx, cy)
             IN  /\ cx' = pos.cx
                 /\ cy' = pos.cy
          /\ pc' = "loop"
          /\ written' = <<>>
          /\ UNCHANGED status
    /\ UNCHANGED <<argc, termVars, screenRows, screenCols, numRows, row,
                   key, input, allocFails, ab, appends>>


(***************************************************************************)
(* AppendBuffer and the frame.  A call of AppendBuffer_append is the       *)
(* string s and the length len passed to it; the buffer is the bytes       *)
(* buf[0 .. len-1].  ok says whether realloc succeeded.                    *)
(***************************************************************************)
AppendCall(s, len) == [s |-> s, len |-> len]

\* An append that would put the new bytes before the old ones.
AppendBuffer_prepend(b, s, len, ok) ==
    IF ok THEN [buf |-> SubSeq(s, 1, len) \o b.buf, len |-> b.len + len] ELSE b
\* Lines 245-252: realloc to len more bytes, memcpy of s behind the old
\* bytes, len added to the length; nothing is done when realloc fails.
AppendBuffer_append(b, s, len, ok) ==
    IF ok THEN [buf |-> b.buf \o SubSeq(s, 1, len), len |-> b.len + len] ELSE b

\* Lines 254-256: buf is freed and len is left as it is.
AppendBuffer_free(b) == [buf |-> <<>>, len |-> b.len]

\* Line 411: write(STDOUT_FILENO, ab.buf, ab.len).
WriteBuffer(b) == <<SubSeq(b.buf, 1, b.len)>>

\* The calls made one after the other; fails are the calls whose realloc fails.
RECURSIVE AppendAll(_, _, _, _)
AppendAll(calls, i, b, fails) ==
    IF i > Len(calls) THEN b
    ELSE AppendAll(calls, i + 1,
                   AppendBuffer_append(b, calls[i].s, calls[i].len, i \notin fails),
                   fails)

\* snprintf's %d.
RECURSIVE DecDigits(_)
DecDigits(n) ==
    IF n < 10 THEN <<Chr("0") + n>>
    ELSE DecDigits(n \div 10) \o <<Chr("0") + (n % 10)>>

FormatInt(n) == IF n < 0 THEN <<Chr("-")>> \o DecDigits(0 - n) ELSE DecDigits(n)

\* Line 406: "\x1b[%d;%dH" of cy + 1 and cx + 1.
CursorPosition(y, x) ==
    Str(<<"ESC", "[">>) \o FormatInt(y + 1) \o Str(<<";">>) \o FormatInt(x + 1)
    \o Str(<<"H">>)

\* A row drawn with the whole loaded row, whatever the width.
RowContentUntruncated(y) ==
    IF y < numRows THEN <<AppendCall(row, Len(row))>> ELSE <<AppendCall(TILDE, 1)>>
\* Lines 350-376: the calls that draw the content of viewport row y.
RowContent(y) ==
    IF y < numRows
    THEN <<AppendCall(row, IF Len(row) > screenCols THEN screenCols ELSE Len(row))>>
    ELSE IF y = CDiv(screenRows, 3)
         THEN LET welcomeLen == IF Len(WELCOME) > screenCols
                                THEN screenCols ELSE Len(WELCOME)
                  padding == CDiv(screenCols - welcomeLen, 2)
                  spaces == IF padding # 0 THEN padding - 1 ELSE 0
              IN  (IF padding # 0 THEN <<AppendCall(TILDE, 1)>> ELSE <<>>)
                  \o [i \in 1..spaces |-> AppendCall(SPACE, 1)]
                  \o <<AppendCall(WELCOME, welcomeLen)>>
         ELSE <<AppendCall(TILDE, 1)>>

\* Lines 349-384: the calls of Editor_drawRows from viewport row y on.
RECURSIVE Editor_drawRows(_)
Editor_drawRows(y) ==
    IF y < screenRows
    THEN RowContent(y)
         \o <<AppendCall(ERASE_LINE, 3)>>
         \o (IF y < screenRows - 1 THEN <<AppendCall(CRLF, 2)>> ELSE <<>>)
         \o Editor_drawRows(y + 1)
    ELSE <<>>

\* Lines 400-409: all the calls of AppendBuffer_append of one frame.
RefreshCalls ==
    <<AppendCall(HIDE_CURSOR, 6), AppendCall(CURSOR_HOME, 3)>>
    \o Editor_drawRows(0)
    \o <<AppendCall(CursorPosition(cy, cx), Len(CursorPosition(cy, cx))),
         AppendCall(SHOW_CURSOR, 6)>>

\* The sets of at most n of the calls 1..m.
RECURSIVE FailSets(_, _)
FailSets(m, n) ==
    IF n <= 0 THEN {{}}
    ELSE FailSets(m, n - 1) \cup {f \cup {i} : f \in FailSets(m, n - 1), i \in 1..m}

(***************************************************************************)
(* The head of the loop of main (line 435): an iteration begins, and the   *)
(* key of the last one is forgotten.                                       *)
(***************************************************************************)
\* A loop that would go to Editor_processKey without a frame.
MainLoopSkipsFrame ==
    /\ pc = "loop"
    /\ pc' = "processKey"
    /\ key' = NoKey
    /\ input' = <<>>
    /\ written' = <<>>
    /\ UNCHANGED <<status, argc, termVars, editorVars, allocFails, ab, appends>>

\* Line 435: while(1).
MainLoop ==
    /\ pc = "loop"
    /\ pc' = "refresh"
    /\ key' = NoKey
    /\ input' = <<>>
    /\ written' = <<>>
    /\ UNCHANGED <<status, argc, termVars, editorVars, allocFails, ab, appends>>

(***************************************************************************)
(* Editor_refreshScreen: the frame is built in the buffer and written      *)
(* with one write.  A negative length passed to AppendBuffer_append makes  *)
(* memcpy copy past every object: the process is killed.                   *)
(***************************************************************************)
Editor_refreshScreen ==
    /\ pc = "refresh"
    /\ LET calls == RefreshCalls
       IN  IF \E i \in 1..Len(calls) : calls[i].len < 0
           THEN /\ pc' = "crashed"
                /\ written' = <<>>
                /\ UNCHANGED <<allocFails, ab, appends>>
           ELSE \E fails \in FailSets(Len(calls), MaxAllocFail - allocFails) :
                  LET filled == AppendAll(calls, 1, APPEND_BUFFER_INIT, fails)
                  IN  /\ written' = WriteBuffer(filled)
                      /\ ab' = AppendBuffer_free(filled)
                      /\ appends' = [i \in 1..Len(calls) |->
                                        [s |-> calls[i].s, len |-> calls[i].len,
                                         ok |-> i \notin fails]]
                      /\ allocFails' = allocFails + Cardinality(fails)
                      /\ pc' = "processKey"
    /\ UNCHANGED <<status, argc, termVars, editorVars, key, input>>

(***************************************************************************)
(* The program.                                                            *)
(***************************************************************************)
InitCommon ==
    /\ pc = "main"
    /\ status = -1
    /\ argc \in {1, 2}
    /\ saved = ZeroTermios
    /\ hooks = 0
    /\ restores = 0
    /\ cx = 0
    /\ cy = 0
    /\ screenRows = 0
    /\ screenCols = 0
    /\ numRows = 0
    /\ row = <<>>
    /\ key = NoKey
    /\ input = <<>>
    /\ written = <<>>
    /\ allocFails = 0
    /\ ab = APPEND_BUFFER_INIT
    /\ appends = <<>>

Init ==
    /\ InitCommon
    /\ term = CookedTermios
    /\ term0 = term

Next ==
    \/ Main
    \/ Terminal_enableRawMode
    \/ Editor_init
    \/ Editor_open
    \/ MainLoop
    \/ Editor_refreshScreen
    \/ ReadKey
    \/ Editor_processKey
    \/ ExitNoHandler
    \/ Terminal_disableRawMode

Spec == Init /\ [][Next]_vars

(***************************************************************************)
(* The start and the end of the program, for every terminal: the steps up  *)
(* to Editor_init and the steps of exit.                                   *)
(***************************************************************************)
InitTerm ==
    /\ InitCommon
    /\ term \in TermSet
    /\ term0 = term

NextTerm ==
    \/ Main
    \/ Terminal_enableRawMode
    \/ Editor_init
    \/ ExitNoHandler
    \/ Terminal_disableRawMode

SpecTerm == InitTerm /\ [][NextTerm]_vars

(***************************************************************************)
(* Terminal_readKey alone, read by read: the program is in its loop, in a  *)
(* 1 x 1 viewport, and calls Terminal_readKey again and again.             *)
(***************************************************************************)
InitKey ==
    /\ pc = "processKey"
    /\ status = -1
    /\ argc = 2
    /\ term = RawTermios(CookedTermios)
    /\ term0 = CookedTermios
    /\ saved = CookedTermios
    /\ hooks = 1
    /\ restores = 0
    /\ cx = 0
    /\ cy = 0
    /\ screenRows = 1
    /\ screenCols = 1
    /\ numRows = 0
    /\ row = <<>>
    /\ key = NoKey
    /\ input = <<>>
    /\ written = <<>>
    /\ allocFails = 0
    /\ ab = APPEND_BUFFER_INIT
    /\ appends = <<>>

NextKey ==
    \/ ReadStep
    \/ NextCall

SpecKey == InitKey /\ [][NextKey]_vars

\* The terminal is in raw mode with VMIN = 0 and VTIME = 1 (lines 115-116):
\* every read returns within a tenth of a second, so a call that waits for
\* a read always gets its next result.
SpecKeyFair == SpecKey /\ WF_vars(ReadStep)

(***************************************************************************)
(* The AppendBuffer alone, call by call: Editor_refreshScreen has made its *)
(* buffer and appends strings to it, then writes it and frees it.          *)
(***************************************************************************)
\* The strings that are appended.
BufStrings == {<<>>, Str(<<"a">>), Str(<<"b", "c">>)}

InitBuf ==
    /\ pc = "refresh"
    /\ status = -1
    /\ argc = 2
    /\ term = RawTermios(CookedTermios)
    /\ term0 = CookedTermios
    /\ saved = CookedTermios
    /\ hooks = 1
    /\ restores = 0
    /\ cx = 0
    /\ cy = 0
    /\ screenRows = 1
    /\ screenCols = 1
    /\ numRows = 0
    /\ row = <<>>
    /\ key = NoKey
    /\ input = <<>>
    /\ written = <<>>
    /\ allocFails = 0
    /\ ab = APPEND_BUFFER_INIT
    /\ appends = <<>>

\* One call of AppendBuffer_append (lines 245-252).
AppendCallStep ==
    /\ pc = "refresh"
    /\ Len(appends) < MaxAppends
    /\ \E s \in BufStrings : \E ok \in BOOLEAN :
         /\ ~ok => allocFails < MaxAllocFail
         /\ ab' = AppendBuffer_append(ab, s, Len(s), ok)
         /\ appends' = Append(appends, [s |-> s, len |-> Len(s), ok |-> ok])
         /\ allocFails' = IF ok THEN allocFails ELSE allocFails + 1
    /\ written' = <<>>
    /\ UNCHANGED <<pc, status, argc, termVars, editorVars, key, input>>

\* Lines 411-412: the buffer is written and freed.
WriteAndFree ==
    /\ pc = "refresh"
    /\ written' = WriteBuffer(ab)
    /\ ab' = AppendBuffer_free(ab)
    /\ pc' = "processKey"
    /\ UNCHANGED <<status, argc, termVars, editorVars, key, input, allocFails, appends>>

NextBuf ==
    \/ AppendCallStep
    \/ WriteAndFree

SpecBuf == InitBuf /\ [][NextBuf]_vars

(***************************************************************************)
(* Editor_refreshScreen alone, for viewports of every width up to MaxWide, *)
(* with and without a loaded row, and with the cursor in a corner.  The    *)
(* allocations succeed.                                                    *)
(***************************************************************************)
InitDraw ==
    /\ pc = "refresh"
    /\ status = -1
    /\ argc = 2
    /\ term = RawTermios(CookedTermios)
    /\ term0 = CookedTermios
    /\ saved = CookedTermios
    /\ hooks = 1
    /\ restores = 0
    /\ screenRows \in 1..MaxRows
    /\ screenCols \in 1..MaxWide
    /\ cx \in {0, screenCols - 1}
    /\ cy \in {0, screenRows - 1}
    /\ numRows \in {0, 1}
    /\ row \in IF numRows = 0 THEN {<<>>} ELSE LineTexts
    /\ key = NoKey
    /\ input = <<>>
    /\ written = <<>>
    /\ allocFails = MaxAllocFail
    /\ ab = APPEND_BUFFER_INIT
    /\ appends = <<>>

NextDraw == Editor_refreshScreen

SpecDraw == InitDraw /\ [][NextDraw]_vars


(***************************************************************************)
(* Properties.                                                             *)
(***************************************************************************)
\* The bytes of the reads of input that returned a byte, in order.
RECURSIVE BytesOf(_)
BytesOf(in) ==
    IF in = <<>> THEN <<>>
    ELSE (IF Head(in).n = 1 THEN <<Head(in).v>> ELSE <<>>) \o BytesOf(Tail(in))

\* Every read of input returned a byte.
AllBytes(in) == \A i \in 1..Len(in) : in[i].n = 1

\* The tails of the decoding table, each with its key.
DecodingTable ==
    {<<Str(<<"[", "A">>), ARROW_UP>>, <<Str(<<"[", "B">>), ARROW_DOWN>>,
     <<Str(<<"[", "C">>), ARROW_RIGHT>>, <<Str(<<"[", "D">>), ARROW_LEFT>>,
     <<Str(<<"[", "H">>), HOME_KEY>>, <<Str(<<"[", "F">>), END_KEY>>,
     <<Str(<<"O", "H">>), HOME_KEY>>, <<Str(<<"O", "F">>), END_KEY>>,
     <<Str(<<"[", "1", "~">>), HOME_KEY>>, <<Str(<<"[", "7", "~">>), HOME_KEY>>,
     <<Str(<<"[", "4", "~">>), END_KEY>>, <<Str(<<"[", "8", "~">>), END_KEY>>,
     <<Str(<<"[", "5", "~">>), PAGE_UP>>, <<Str(<<"[", "6", "~">>), PAGE_DOWN>>,
     <<Str(<<"[", "3", "~">>), DELETE_KEY>>}

\* C1: in a viewport of at least one row and one column the cursor is
\* always inside the viewport: 0 <= cy <= screenRows - 1 and
\* 0 <= cx <= screenCols - 1, whatever keys were processed.
C1_CursorClamped ==
    (screenRows >= 1 /\ screenCols >= 1) =>
        /\ 0 <= cy /\ cy <= screenRows - 1
        /\ 0 <= cx /\ cx <= screenCols - 1

\* A down key was processed with the cursor ending in the last row and the
\* last column of a viewport of several rows and columns.
C1_Witness ==
    /\ pc = "loop"
    /\ key \in {ARROW_DOWN, Chr("j")}
    /\ screenRows >= 2 /\ screenCols >= 2
    /\ cy = screenRows - 1
    /\ cx = screenCols - 1

\* C2: when Editor_init returns without Terminal_die the viewport has at
\* least one row and one column.
C2_UsableDimensions ==
    pc = "open" => (screenRows >= 1 /\ screenCols >= 1)

\* C3: when every read returns a byte, a first byte that is not the escape
\* byte is returned as it is, and an escape byte followed by a tail of the
\* decoding table gives the key of the table.
C3_DecodingTable ==
    (pc = "dispatch" /\ AllBytes(input)) =>
        LET b == BytesOf(input)
        IN  /\ b[1] # Chr("ESC") => (key = b[1] /\ Len(b) = 1)
            /\ \A e \in DecodingTable :
                 b = <<Chr("ESC")>> \o e[1] => key = e[2]

\* The call read ESC [ 3 ~ and returned the delete key.
C3_Witness ==
    /\ pc = "dispatch"
    /\ input = <<ByteRead(Chr("ESC")), ByteRead(Chr("[")), ByteRead(Chr("3")),
                 ByteRead(Chr("~"))>>
    /\ key = DELETE_KEY

\* C4: when every read returns a byte, an escape byte followed by a tail
\* that is not in the decoding table gives the escape byte as the key.
C4_UnrecognizedIsEscape ==
    (pc = "dispatch" /\ AllBytes(input)) =>
        LET b == BytesOf(input)
        IN  (b[1] = Chr("ESC") /\ Tail(b) \notin {e[1] : e \in DecodingTable})
                => key = Chr("ESC")

\* C5: once the escape byte is read, a read that returns no byte ends the
\* call at once: the key is the escape byte and the program has not died.
C5_EscapeTimeout ==
    LET p == FirstAnswer(input, 1)
    IN  (/\ p < Len(input)
         /\ input[p].n = 1
         /\ input[p].v = Chr("ESC")
         /\ input[Len(input)].n # 1)
        => (pc = "dispatch" /\ key = Chr("ESC") /\ status = -1)

\* The third read after the escape byte returned no byte and the call
\* returned the escape byte.
C5_Witness ==
    /\ pc = "dispatch"
    /\ input = <<ByteRead(Chr("ESC")), ByteRead(Chr("[")), ByteRead(Chr("5")), NoByte>>
    /\ key = Chr("ESC")

\* The key returned depends on nothing but the read results: whatever the
\* array seq held before, the call ends the same way, with the last read
\* made, and with the key the program holds.
KeyIsFunctionOfInput ==
    LET res == Terminal_readKey(input, [i \in 0..2 |-> 0])
    IN  /\ \A seq \in [0..2 -> {0, Chr("A"), Chr("~"), Chr("5")}] :
             Terminal_readKey(input, seq) = res
        /\ pc = "dispatch" => (res.kind = "key" /\ res.key = key /\ res.used = Len(input))
        /\ (pc = "processKey" /\ status = -1) => res.kind = "more"

\* C6 as stated: a call consumes at most three bytes and its key is a
\* function of the bytes it consumed.
C6_AtMostThreeBytes ==
    /\ Len(BytesOf(input)) <= 3
    /\ KeyIsFunctionOfInput

\* C6 as amended: a call consumes at most four bytes, the escape byte and
\* at most three bytes after it, and its key is a function of the bytes it
\* consumed.
C6_AtMostFourBytes ==
    /\ Len(BytesOf(input)) <= 4
    /\ (Len(BytesOf(input)) > 1 => BytesOf(input)[1] = Chr("ESC"))
    /\ KeyIsFunctionOfInput

\* A call consumed four bytes, ESC [ 6 ~, and returned page-down.
C6_Witness ==
    /\ pc = "dispatch"
    /\ BytesOf(input) = Str(<<"ESC", "[", "6", "~">>)
    /\ key = PAGE_DOWN

\* C7: in a viewport of at least one row a page-down key leaves the cursor
\* in the last row and a page-up key in row 0, which is where screenRows
\* single steps lead, and the column is unchanged.
C7_PageKeys ==
    [][(pc = "dispatch" /\ key \in {PAGE_UP, PAGE_DOWN} /\ screenRows >= 1) =>
          /\ pc' = "loop"
          /\ cy' = IF key = PAGE_DOWN THEN screenRows - 1 ELSE 0
          /\ cy' = RepeatMove(screenRows, IF key = PAGE_DOWN THEN ARROW_DOWN ELSE ARROW_UP,
                              [cx |-> cx, cy |-> cy], screenRows, screenCols).cy
          /\ cx' = cx]_vars

\* A page-down key was processed in a viewport of at least three rows and
\* the cursor is in the last row.
C7_Witness ==
    /\ pc = "loop"
    /\ key = PAGE_DOWN
    /\ screenRows >= 3
    /\ cy = screenRows - 1

\* C8: the attributes are captured before they are first changed, and when
\* the process has ended by exit the handler that restores them has run
\* exactly once if they were captured and not at all otherwise.
C8_SnapshotLifecycle ==
    /\ term # term0 => hooks = 1
    /\ hooks <= 1
    /\ restores <= hooks
    /\ pc = "exited" => restores = hooks

\* C9: the saved snapshot is the attributes the terminal started with from
\* its capture on, and once the restoring tcsetattr has succeeded the
\* terminal has the attributes it started with.
C9_RestoreRoundTrip ==
    /\ hooks = 1 => saved = term0
    /\ (pc = "exited" /\ hooks = 1 /\ written = <<>>) => term = term0

\* Raw mode was entered, Editor_init failed after storing a row count, and
\* the handler restored attributes that raw mode had changed.
C9_Witness ==
    /\ pc = "exited"
    /\ hooks = 1
    /\ restores = 1
    /\ written = <<>>
    /\ screenRows = 1
    /\ term = term0
    /\ RawTermios(term0) # term0

\* C10: every frame is one write that begins with the hide-cursor and
\* cursor-home sequences and ends with the cursor-position sequence of the
\* cursor (1-based) and the show-cursor sequence.
C10_FrameOrdering ==
    pc = "processKey" =>
        /\ Len(written) = 1
        /\ IsPrefix(HIDE_CURSOR \o CURSOR_HOME, written[1])
        /\ IsSuffix(CursorPosition(cy, cx) \o SHOW_CURSOR, written[1])

\* The pieces of t between the occurrences of sep; cur is the piece begun.
RECURSIVE SplitOn(_, _, _)
SplitOn(sep, t, cur) ==
    IF t = <<>> THEN <<cur>>
    ELSE IF IsPrefix(sep, t)
         THEN <<cur>> \o SplitOn(sep, SubSeq(t, Len(sep) + 1, Len(t)), <<>>)
         ELSE SplitOn(sep, Tail(t), Append(cur, Head(t)))

\* A frame was written and none of its appends was dropped.
FrameIntact ==
    /\ pc = "processKey"
    /\ Len(written) = 1
    /\ appends # <<>>
    /\ \A i \in 1..Len(appends) : appends[i].ok

\* The bytes of the frame between its first two and its last two sequences.
FrameBody ==
    SubSeq(written[1], Len(HIDE_CURSOR) + Len(CURSOR_HOME) + 1,
           Len(written[1]) - Len(CursorPosition(cy, cx)) - Len(SHOW_CURSOR))

\* The rows of the frame: the pieces of its body between the line breaks.
FrameRows == SplitOn(CRLF, FrameBody, <<>>)

\* The content of a row of the frame: what comes before its last three bytes.
RowText(r) == SubSeq(r, 1, Len(r) - Len(ERASE_LINE))

\* The banner as it is shown in the viewport: the text, cut to the width.
BannerText == SubSeq(WELCOME, 1, Min(Len(WELCOME), screenCols))

\* C11: in a frame drawn with a row loaded, every viewport row but the
\* first shows the placeholder alone, and no row ends with the banner text.
C11_BannerOnlyWhenEmpty ==
    (FrameIntact /\ numRows = 1) =>
        \A y \in 2..Len(FrameRows) :
            /\ RowText(FrameRows[y]) = TILDE
            /\ ~IsSuffix(BannerText, RowText(FrameRows[y]))

\* The process was ended by exit, with the status the code passed to it.
EndedWithStatus(n) == pc = "exited" /\ status = n

\* C12: the process ends with status 0 on the quit key and on the usage
\* path only, every fatal error ends it with status 1 and is not retried,
\* and the quit key and every fatal error clear the screen before exit.
C12_ExitStatuses ==
    /\ pc = "exited" => status \in {0, 1}
    /\ EndedWithStatus(0) => (argc < 2 \/ key = CTRL_KEY(Chr("q")))
    /\ (pc = "exited" /\ argc < 2) => status = 0
    /\ (pc = "atexit" /\ restores = 0 /\ argc >= 2) =>
           /\ written = <<ERASE_SCREEN, CURSOR_HOME>>
           /\ status = 0 <=> key = CTRL_KEY(Chr("q"))
    /\ status = 1 => (pc \in {"atexit", "exited"} /\ restores <= 1)

\* C13: a program started without a file argument runs the viewer: it
\* leaves only by the quit key or a fatal error, and it loads no row.
C13_ViewerWithoutFile ==
    argc < 2 =>
        /\ numRows = 0
        /\ pc \in {"atexit", "exited"} => (key = CTRL_KEY(Chr("q")) \/ status = 1)

\* The strings of the appends that succeeded, one after the other.
RECURSIVE Appended(_)
Appended(calls) ==
    IF calls = <<>> THEN <<>>
    ELSE (IF Head(calls).ok THEN SubSeq(Head(calls).s, 1, Head(calls).len) ELSE <<>>)
         \o Appended(Tail(calls))

\* The sum of the lengths of the appends that succeeded.
RECURSIVE AppendedLen(_)
AppendedLen(calls) ==
    IF calls = <<>> THEN 0
    ELSE (IF Head(calls).ok THEN Head(calls).len ELSE 0) + AppendedLen(Tail(calls))

\* While it is filled the buffer holds the strings of the appends that
\* succeeded, in call order, and its length is the sum of their lengths;
\* it is written with one write of exactly that content.
BufferIsConcatenation ==
    /\ pc = "refresh" =>
          /\ ab.buf = Appended(appends)
          /\ ab.len = AppendedLen(appends)
          /\ written = <<>>
    /\ pc = "processKey" => written = <<Appended(appends)>>

\* C14 as stated: the buffer is the concatenation of the successful
\* appends, it is written once, and the write leaves it with length 0.
C14_FlushResetsLength ==
    /\ BufferIsConcatenation
    /\ pc = "processKey" => ab.len = 0

\* C14 as amended: the buffer is the concatenation of the successful
\* appends, it is written once, and it is then freed with its length
\* field left at the number of bytes written.
C14_FlushFreesBuffer ==
    /\ BufferIsConcatenation
    /\ pc = "processKey" => (ab.buf = <<>> /\ ab.len = AppendedLen(appends))

\* "a" was appended, an append of "bc" was dropped, "bc" was appended, and
\* "abc" was written.
C14_Witness ==
    /\ pc = "processKey"
    /\ appends = <<[s |-> Str(<<"a">>), len |-> 1, ok |-> TRUE],
                   [s |-> Str(<<"b", "c">>), len |-> 2, ok |-> FALSE],
                   [s |-> Str(<<"b", "c">>), len |-> 2, ok |-> TRUE]>>
    /\ written = <<Str(<<"a", "b", "c">>)>>
    /\ ab.len = 3

Max(a, b) == IF a > b THEN a ELSE b

\* C15: in a viewport of at least one row and one column a move key or its
\* letter moves the cursor one step, stopping at the edges of the
\* viewport, home and end set the column to 0 and to screenCols - 1, the
\* other coordinate is unchanged, and the program goes on with its loop.
C15_SingleStep ==
    [][(pc = "dispatch" /\ screenRows >= 1 /\ screenCols >= 1) =>
          /\ key \in {ARROW_UP, Chr("k")} =>
                (cy' = Max(cy - 1, 0) /\ cx' = cx)
          /\ key \in {ARROW_DOWN, Chr("j")} =>
                (cy' = Min(cy + 1, screenRows - 1) /\ cx' = cx)
          /\ key \in {ARROW_LEFT, Chr("h")} =>
                (cx' = Max(cx - 1, 0) /\ cy' = cy)
          /\ key \in {ARROW_RIGHT, Chr("l")} =>
                (cx' = Min(cx + 1, screenCols - 1) /\ cy' = cy)
          /\ key = HOME_KEY => (cx' = 0 /\ cy' = cy)
          /\ key = END_KEY => (cx' = screenCols - 1 /\ cy' = cy)
          /\ key \in MoveKeys \cup {HOME_KEY, END_KEY} =>
                (pc' = "loop" /\ status' = status)]_vars

\* The letter 'j' was processed in a viewport of several rows and columns
\* and the cursor is below the first row, in the last column.
C15_Witness ==
    /\ pc = "loop"
    /\ key = Chr("j")
    /\ screenRows >= 2 /\ screenCols >= 2
    /\ cy >= 1
    /\ cx = screenCols - 1

\* The places of the loop of main.
LoopPcs == {"loop", "refresh", "processKey", "dispatch"}

TimedOut(r) == r.n = 0 \/ (r.n = -1 /\ r.errno = "EAGAIN")

\* Every read of the call so far has timed out.
OnlyTimeouts == input # <<>> /\ \A i \in 1..Len(input) : TimedOut(input[i])

\* The reads before the last one have timed out and the last one has not.
FirstAnswerIsLast ==
    /\ input # <<>>
    /\ \A i \in 1..(Len(input) - 1) : TimedOut(input[i])
    /\ ~TimedOut(input[Len(input)])

\* C17: while the first byte of a key is awaited, reads that time out are
\* made again: no key is returned, the program does not exit, and neither
\* the editor state nor the screen changes; a read that fails with another
\* error is fatal; a byte that is not the escape byte is returned as the
\* key at once; and every call ends, with a key or with the fatal exit.
C17_ReadTimeoutsRetried ==
    /\ [](OnlyTimeouts => (pc = "processKey" /\ key = NoKey /\ status = -1))
    /\ [][(pc = "processKey" /\ pc' = "processKey") =>
             (written' = <<>> /\ UNCHANGED <<editorVars, termVars>>)]_vars
    /\ []((FirstAnswerIsLast /\ input[Len(input)].n = -1) =>
             (pc = "atexit" /\ status = 1))
    /\ []((FirstAnswerIsLast /\ input[Len(input)].n = 1
              /\ input[Len(input)].v # Chr("ESC")) =>
             (pc = "dispatch" /\ key = input[Len(input)].v))
    /\ (pc = "processKey") ~> (pc # "processKey")

\* A read returned no byte, the next failed with EAGAIN, the third
\* returned 'k', and the call returned 'k'.
C17_Witness ==
    /\ pc = "dispatch"
    /\ input = <<NoByte, ReadError("EAGAIN"), ByteRead(Chr("k"))>>
    /\ key = Chr("k")
    /\ status = -1

HandledKeys ==
    {CTRL_KEY(Chr("q")), PAGE_UP, PAGE_DOWN, HOME_KEY, END_KEY,
     ARROW_UP, ARROW_DOWN, ARROW_LEFT, ARROW_RIGHT,
     Chr("h"), Chr("j"), Chr("k"), Chr("l")}

\* C19: once Editor_init has returned no step changes screenRows or
\* screenCols, once Editor_open has returned no step changes numRows or the
\* loaded row, and a key that is not quit, a page key, home, end, an arrow
\* or one of h/j/k/l leaves the cursor where it is.
C19_KeyProcessingFrame ==
    [][/\ pc \notin {"main", "enableRawMode", "init"} =>
             UNCHANGED <<screenRows, screenCols>>
       /\ pc \notin {"main", "enableRawMode", "init", "open"} =>
             UNCHANGED <<numRows, row>>
       /\ (pc = "dispatch" /\ key \notin HandledKeys) =>
             (pc' = "loop" /\ UNCHANGED <<cx, cy>>)]_vars

\* The delete key was processed with the cursor away from the first row
\* and the first column, in a viewport with a loaded row.
C19_Witness ==
    /\ pc = "loop"
    /\ key = DELETE_KEY
    /\ cx >= 1
    /\ cy >= 1
    /\ numRows = 1

\* The call that has ended consumed bytes after an escape byte.
TailConsumed ==
    /\ pc = "dispatch"
    /\ Len(BytesOf(input)) >= 2

\* C20: a call that consumed bytes after an escape byte returns one key,
\* the escape byte or the key of the sequence and never one of the bytes
\* of the tail; when it is the escape byte the cursor does not move; and
\* the next call starts with none of these reads left to it.  The bytes
\* ESC j j give the escape byte as the only key.
C20_TailBytesDiscarded ==
    /\ [](TailConsumed =>
            /\ BytesOf(input)[1] = Chr("ESC")
            /\ key \in {Chr("ESC")} \cup EditorKeys
            /\ Terminal_readKey(input, [i \in 0..2 |-> 0]).used = Len(input))
    /\ [](BytesOf(input) = Str(<<"ESC", "j", "j">>) => key = Chr("ESC"))
    /\ [][(TailConsumed /\ key = Chr("ESC")) =>
             (pc' = "loop" /\ key' = key /\ UNCHANGED <<cx, cy>>)]_vars
    /\ [][pc = "loop" => (input' = <<>> /\ key' = NoKey)]_vars

\* The bytes ESC j j were read, the escape byte was processed as the key,
\* and the cursor is in the first row of a viewport of several rows.
C20_Witness ==
    /\ pc = "loop"
    /\ BytesOf(input) = Str(<<"ESC", "j", "j">>)
    /\ key = Chr("ESC")
    /\ screenRows >= 2
    /\ cy = 0

=============================================================================
